---- MODULE Spec2Model ----
(***************************************************************************)
(* Model of the RFI document pipeline of legal-rfi-assistant               *)
(* (code/streamlit-app/app.py): upload, run_chunk_document, get_questions, *)
(* get_answer, update_document_status and the Upload tab's session state.  *)
(*                                                                         *)
(* Text is a sequence of tokens.  A token is an atom of text that no       *)
(* searched phrase or separator straddles: "\n" is one newline character,  *)
(* every other token is a run of characters without a newline.  str.split, *)
(* str.startswith and the `in` substring test are computed on the token    *)
(* sequence exactly as Python computes them on the characters.             *)
(***************************************************************************)
EXTENDS Integers, Sequences, FiniteSets, TLC

\* ------------------------------------------------------------------ bounds
\* Runs (clicks on "Process Document") per browser session.
MaxRuns == 2
\* External calls over one session, all runs together: one generation
\* call per chunk the splitter produces and one retrieval call per
\* sub-question.
MaxCalls == 4
\* Sub-questions in one extractor output of the pipeline specification.
MaxSubQ == 2
\* put_item calls that fail over one session.
MaxWriteFailures == 1
\* Tokens of an extractor output handed to get_answer on its own.
MaxLen == 7
\* Tokens of a retrieval response text handed to get_answer on its own.
MaxRespLen == 3
\* Invocations of the document-processor Lambda.
MaxRequests == 3
\* Records in a report handed to create_word_document on its own.
MaxExport == 3
\* Tokens of a text, and the largest chunk size, handed to the splitter on
\* its own.
MaxTokens == 9
MaxChunkSize == 4
\* Tokens of the first content block, and content blocks, of a generation
\* response handed to get_questions on its own.
MaxBlockLen == 4
MaxBlocks == 3
\* Uploads of one browser session, when two sessions share the bucket.
MaxUploads == 2
\* Prompts sent in one browser session of a chat app.
MaxTurns == 3

\* ------------------------------------------------------- program constants
\* TokenTextSplitter(chunk_size=1000, chunk_overlap=0)
chunk_size == 1000
chunk_overlap == 0

NL == "\n"
EmptyText == << >>
\* The " " the code stores for "no answer" and "no citation".
Blank == <<" ">>
AnswerLabel == "Answer: "
UrlLabel == "url: "
ErrorMarker == <<"Error: Unable to process the question.">>
Unfortunately == "Unfortunately"

\* The condition with its "No answer" test left out.
negative_phrases_without_no_answer ==
    { <<"Sorry, I am unable">>,
      <<"The search results ", "do not contain">>,
      <<"I could not find">>,
      <<"there is ", "no relevant information to extract", " for this question">> }

\* The five phrases of the condition in get_answer, as token sequences.
negative_phrases ==
    { <<"Sorry, I am unable">>,
      <<"The search results ", "do not contain">>,
      <<"No answer">>,
      <<"I could not find">>,
      <<"there is ", "no relevant information to extract", " for this question">> }

\* ------------------------------------------------------------ text helpers
\* Python: phrase in text
Contains(text, phrase) ==
    \E i \in 1..(Len(text) - Len(phrase) + 1) :
        SubSeq(text, i, i + Len(phrase) - 1) = phrase

\* Python: text.startswith(token)
startswith(text, token) == Len(text) >= 1 /\ text[1] = token

RECURSIVE split_from(_, _, _)
split_from(s, i, cur) ==
    IF i > Len(s) THEN <<cur>>
    ELSE IF i < Len(s) /\ s[i] = NL /\ s[i + 1] = NL
         THEN <<cur>> \o split_from(s, i + 2, EmptyText)
         ELSE split_from(s, i + 1, Append(cur, s[i]))

\* The text cut at every newline: s.split("\n").
RECURSIVE split_on_single_newline(_)
split_on_single_newline(s) ==
    IF \A i \in 1..Len(s) : s[i] # NL THEN <<s>>
    ELSE LET first == CHOOSE i \in 1..Len(s) :
                          s[i] = NL /\ \A k \in 1..(i - 1) : s[k] # NL
         IN <<SubSeq(s, 1, first - 1)>>
                \o split_on_single_newline(SubSeq(s, first + 1, Len(s)))

\* Python: s.split("\n\n"), scanning left to right without overlap.
split(s) == split_from(s, 1, EmptyText)

\* Texts of at most n tokens over an alphabet.
RECURSIVE TextsUpTo(_, _)
TextsUpTo(alphabet, n) ==
    IF n = 0 THEN {EmptyText}
    ELSE LET shorter == TextsUpTo(alphabet, n - 1)
         IN shorter \cup {Append(t, a) : t \in shorter, a \in alphabet}

\* ---------------------------------------------------------- get_questions
\* A generation outcome: the call raises, or returns the content blocks.
GenRaise == [raises |-> TRUE, content |-> << >>]
GenReturn(blocks) == [raises |-> FALSE, content |-> blocks]

\* What get_questions hands to its caller.
QRaise == [kind |-> "raise", text |-> EmptyText]
QNone == [kind |-> "none", text |-> EmptyText]
QText(t) == [kind |-> "text", text |-> t]

\* The loop going on to the next block after a negative one: the first
\* block that does not start with the marker is returned.
get_questions_skipping_negative(gen) ==
    IF gen.raises THEN QRaise
    ELSE IF Len(gen.content) = 0 THEN QNone
    ELSE IF \A k \in 1..Len(gen.content) : startswith(gen.content[k], Unfortunately)
         THEN QNone
         ELSE QText(gen.content[CHOOSE k \in 1..Len(gen.content) :
                        /\ ~startswith(gen.content[k], Unfortunately)
                        /\ \A j \in 1..(k - 1) :
                              startswith(gen.content[j], Unfortunately)])

\* The first block alone decides; an empty content list falls off the loop
\* and returns None; a failed call is re-raised.
get_questions(gen) ==
    IF gen.raises THEN QRaise
    ELSE IF Len(gen.content) = 0 THEN QNone
    ELSE IF ~startswith(gen.content[1], Unfortunately)
         THEN QText(gen.content[1])
         ELSE QText(EmptyText)

\* The output as the caller's `if output:` sees it: None is as falsy as "".
as_seen(out) == IF out.kind = "none" THEN QText(EmptyText) ELSE out

\* Python: if output:
truthy(out) == out.kind = "text" /\ out.text # EmptyText

\* ------------------------------------------------------------- get_answer
\* A retrieval outcome: the call raises, or returns output text and a list
\* of citations, each a list of retrieved references; a reference is its
\* s3Location uri, or NoS3Location when it carries another location type.
NoS3Location == "no-s3Location"
KbRaise == [raises |-> TRUE, text |-> EmptyText, citations |-> << >>]
KbReturn(text, citations) == [raises |-> FALSE, text |-> text, citations |-> citations]

is_negative_result(response_answer) ==
    \E phrase \in negative_phrases : Contains(response_answer, phrase)

Record(q, a, m) == [question |-> q, answer |-> a, metadata |-> m]

\* The except branch: the answer and the citation are overwritten, the
\* question keeps whatever was assigned before the exception.
except_record(question) == Record(question, ErrorMarker, Blank)

\* One iteration of the loop of get_answer.
get_answer_body(llm_generated_question, response) ==
    IF response.raises
    THEN except_record(EmptyText)
    ELSE IF ~is_negative_result(response.text)
         THEN IF Len(response.citations) = 0
              THEN except_record(llm_generated_question)      \* IndexError
              ELSE IF Len(response.citations[1]) > 0
                   THEN IF response.citations[1][1] = NoS3Location
                        THEN except_record(llm_generated_question)  \* KeyError
                        ELSE Record(llm_generated_question,
                                    <<AnswerLabel>> \o response.text,
                                    <<UrlLabel, response.citations[1][1]>>)
                   ELSE Record(llm_generated_question,
                               <<AnswerLabel>> \o response.text, Blank)
         ELSE Record(llm_generated_question, Blank, Blank)

\* The loop run over the whole array, first segment included.
sub_questions_all(questions) == split(questions)

\* llm_generated_questions_array[1:]
sub_questions(questions) == Tail(split(questions))

\* An exception that leaves the loop instead of being caught inside it.
RECURSIVE get_answer_loop_abort(_, _, _)
get_answer_loop_abort(subs, responses, i) ==
    IF i > Len(subs) THEN << >>
    ELSE IF responses[i].raises THEN << >>
    ELSE <<get_answer_body(subs[i], responses[i])>>
            \o get_answer_loop_abort(subs, responses, i + 1)

\* answers.insert(0, answer) instead of answers.append(answer).
RECURSIVE get_answer_loop_insert(_, _, _)
get_answer_loop_insert(subs, responses, i) ==
    IF i > Len(subs) THEN << >>
    ELSE get_answer_loop_insert(subs, responses, i + 1)
            \o <<get_answer_body(subs[i], responses[i])>>

RECURSIVE get_answer_loop(_, _, _)
get_answer_loop(subs, responses, i) ==
    IF i > Len(subs) THEN << >>
    ELSE <<get_answer_body(subs[i], responses[i])>>
            \o get_answer_loop(subs, responses, i + 1)

\* responses[i] is the outcome of the retrieval call for sub-question i.
get_answer(questions, responses) ==
    get_answer_loop(sub_questions(questions), responses, 1)

\* ------------------------------------------------------------- the chunker
RECURSIVE split_text_on_tokens_from(_, _, _, _)
split_text_on_tokens_from(L, C, O, start_idx) ==
    IF start_idx >= L THEN 0
    ELSE IF start_idx + C >= L THEN 1
    ELSE 1 + split_text_on_tokens_from(L, C, O, start_idx + (C - O))

\* len(split_documents): the windows TokenTextSplitter cuts from L tokens.
split_documents(L) == split_text_on_tokens_from(L, chunk_size, chunk_overlap, 0)

\* ------------------------------------------------------------------ state
VARIABLES
    \* st.session_state of the Upload tab
    processed_results, uploaded_file_url, document_id, file_name,
    \* the position of the script and the locals of run_chunk_document
    pc, max_chunks, counter, questionandanswer, error_message,
    \* the documents table: document_id -> item
    table,
    \* the run's input and history: tokens of the loaded text, what
    \* get_questions gave per chunk, where each accumulated record came
    \* from (<<chunk, sub-question>>), every put_item issued per document,
    \* whether the last put_item succeeded, and the counts of clicks,
    \* external calls (with those of the chunks still to process) and
    \* failed writes
    doc_tokens, extracted, origin, writes, last_write_ok,
    runs, calls_total, write_failures,
    \* get_answer called on its own: argument, call outcomes, result
    in_questions, in_responses, answers, apc,
    \* a part of the program exercised on its own, as one record: the inputs
    \* handed to it, its position and what it produced (the document-processor
    \* Lambda, create_word_document, the token splitter, one iteration of the
    \* chunk loop, or the login state of one browser session)
    unit

session_vars == <<processed_results, uploaded_file_url, document_id, file_name>>
local_vars == <<max_chunks, counter, questionandanswer, error_message>>
history_vars == <<doc_tokens, extracted, origin>>
count_vars == <<runs, calls_total, write_failures>>
answer_vars == <<in_questions, in_responses, answers, apc>>
pipeline_vars == <<session_vars, pc, local_vars, table, writes, last_write_ok, history_vars,
                   count_vars>>
\* Everything outside the pipeline, outside get_answer on its own, and
\* outside the part held in unit.
unit_vars == <<answer_vars, unit>>
outside_answer == <<pipeline_vars, unit>>
outside_unit == <<pipeline_vars, answer_vars>>
vars == <<pipeline_vars, unit_vars>>

DocIds == 1..MaxRuns
NoDocument == 0
NoFile == "None"
NoUrl == "None"
NoTokens == -1
FileNames == {"my rfi.pdf"}
Statuses == {"UPLOADED", "PROCESSING", "COMPLETED", "ERROR"}
Terminal == {"COMPLETED", "ERROR"}

NoMetadata ==
    [chunks_processed |-> -1, total_chunks |-> -1, answers_found |-> -1,
     error_message |-> ""]
\* answers_found counting the chunks instead of the records.
CompletedMetadata_counting_chunks(c, m, a) ==
    [chunks_processed |-> c, total_chunks |-> m, answers_found |-> c,
     error_message |-> ""]

\* The metadata of the COMPLETED write.
CompletedMetadata(c, m, a) ==
    [chunks_processed |-> c, total_chunks |-> m, answers_found |-> a,
     error_message |-> ""]
\* The handler storing a fixed text instead of str(e).
ErrorMetadata_fixed_text(msg) ==
    [chunks_processed |-> -1, total_chunks |-> -1, answers_found |-> -1,
     error_message |-> "load failed"]

\* {"error_message": str(e)}
ErrorMetadata(msg) ==
    [chunks_processed |-> -1, total_chunks |-> -1, answers_found |-> -1,
     error_message |-> msg]
NoItem == [file_name |-> NoFile, s3_url |-> NoUrl, status |-> "", metadata |-> NoMetadata]

\* file.name.replace(" ", "_")
safe_filename(name) == IF name = "my rfi.pdf" THEN "my_rfi.pdf" ELSE name

\* f"s3://{bucket_name}/{safe_filename}"; the bucket is fixed.
s3_location(name) == safe_filename(name)

\* ------------------------------------------------- update_document_status
\* put_item may fail while failures remain in the session's budget.
PutOutcomes == {TRUE} \cup (IF write_failures < MaxWriteFailures THEN {FALSE} ELSE {})

\* The item is put when the call succeeds; a failure is reported with
\* st.error and the function returns False: the table keeps what it had.
update_document_status(d, name, s3_url, status, metadata, ok) ==
    /\ table' = IF ok
                THEN [table EXCEPT ![d] = [file_name |-> name, s3_url |-> s3_url,
                                           status |-> status, metadata |-> metadata]]
                ELSE table
    /\ writes' = [writes EXCEPT ![d] = Append(@, status)]
    /\ last_write_ok' = ok
    /\ write_failures' = IF ok THEN write_failures ELSE write_failures + 1

\* A failed put_item that escapes update_document_status into the try block.
after_write_raising(ok, next) == IF ok THEN next ELSE "except"

\* Where run_chunk_document goes after a status write: on, whatever the
\* write returned (update_document_status catches the exception itself).
after_write(ok, next) == next

\* The new records put in front of the accumulated ones.
extend_in_front(list, result) == result \o list

\* An exception that escapes run_chunk_document: no handler runs.
no_except_handler == "done"

\* except Exception: where an exception raised inside the try block lands.
except_handler == "except"

\* list.extend
extend(list, result) == list \o result

\* process_message: st.session_state.processed_results = message["bot_message"]
process_message(bot_message) == bot_message

\* ------------------------------------------------- inputs of the pipeline
Preamble == <<"pre">>
SubQ(i) == IF i % 2 = 1 THEN <<"a">> ELSE <<"b">>

RECURSIVE ExtractorOutput(_)
\* A preamble, then k sub-questions, each after a blank line.
ExtractorOutput(k) ==
    IF k = 0 THEN Preamble ELSE ExtractorOutput(k - 1) \o <<NL, NL>> \o SubQ(k)

GenOutcomes ==
    {GenRaise, GenReturn(<< >>), GenReturn(<< <<Unfortunately, "x">> >>)}
        \cup {GenReturn(<<ExtractorOutput(k)>>) : k \in 0..MaxSubQ}

KbValid == KbReturn(<<"ok">>, << <<"s3://kb/doc1">> >>)
KbNegative == KbReturn(<<"No answer">>, << << >> >>)
PipelineRetrievals == {KbRaise, KbValid, KbNegative}

\* Token counts of the loaded text: none, full windows, and one token over
\* a full window.
DocTokenCounts ==
    {k * chunk_size : k \in 0..MaxCalls} \cup {chunk_size + 1}

\* ------------------------------------------------------------------- Init
AnswerIdle ==
    /\ in_questions = EmptyText
    /\ in_responses = << >>
    /\ answers = << >>
    /\ apc = "unused"

\* No item in the documents table, no put_item issued.
TableEmpty ==
    /\ table = [d \in DocIds |-> NoItem]
    /\ writes = [d \in DocIds |-> << >>]

SessionIdle ==
    /\ processed_results = << >>
    /\ uploaded_file_url = NoUrl
    /\ document_id = NoDocument
    /\ file_name = NoFile
    /\ pc = "idle"
    /\ max_chunks = 0
    /\ counter = 0
    /\ questionandanswer = << >>
    /\ error_message = ""
    /\ last_write_ok = TRUE
    /\ doc_tokens = NoTokens
    /\ extracted = << >>
    /\ origin = << >>
    /\ runs = 0
    /\ calls_total = 0
    /\ write_failures = 0

PipelineIdle == SessionIdle /\ TableEmpty

NoToken == "None"
NoUsername == "no username attribute"
NoItemYet == "no item"
NoRole == "no custom:role attribute"

\* The key user_info is not in st.session_state.
NoUserInfo == [present |-> FALSE, username |-> "", role |-> NoRole]

\* No part is exercised on its own.
NoUnit == [name |-> "none"]

Init == PipelineIdle /\ AnswerIdle /\ unit = NoUnit

\* ---------------------------------------------------------------- actions
\* display_upload_tab, "Process Document": a fresh document id, the upload,
\* and on success the UPLOADED write; run_chunk_document is entered next.
ClickProcess ==
    /\ pc = "idle"
    /\ runs < MaxRuns
    /\ \E name \in FileNames, uploaded \in BOOLEAN :
        /\ runs' = runs + 1
        /\ document_id' = runs + 1
        /\ file_name' = name
        /\ IF uploaded
           THEN /\ uploaded_file_url' = s3_location(name)
                /\ \E ok \in PutOutcomes :
                      update_document_status(runs + 1, name, s3_location(name),
                                             "UPLOADED", NoMetadata, ok)
                /\ pc' = "run"
           ELSE /\ UNCHANGED <<uploaded_file_url, table, writes, last_write_ok,
                             write_failures, pc>>
    /\ UNCHANGED <<processed_results, local_vars, history_vars, calls_total,
                   unit_vars>>

\* run_chunk_document, entry: the PROCESSING write.
StartRun ==
    /\ pc = "run"
    /\ \E ok \in PutOutcomes :
        /\ update_document_status(document_id, file_name, uploaded_file_url,
                                  "PROCESSING", NoMetadata, ok)
        /\ pc' = after_write(ok, "load")
    /\ UNCHANGED <<session_vars, local_vars, history_vars, runs, calls_total,
                   unit_vars>>

\* The loader and the splitter: the load raises, or the text of L tokens is
\* cut into chunks; no chunks means the loop body never runs.
LoadAndSplit ==
    /\ pc = "load"
    /\ \/ /\ error_message' = "load failed"
          /\ pc' = except_handler
          /\ UNCHANGED <<max_chunks, counter, questionandanswer, history_vars,
                         calls_total>>
       \/ \E L \in DocTokenCounts :
            /\ calls_total + split_documents(L) <= MaxCalls
            /\ doc_tokens' = L
            /\ max_chunks' = split_documents(L)
            /\ calls_total' = calls_total + split_documents(L)
            /\ questionandanswer' = << >>
            /\ counter' = 0
            /\ extracted' = << >>
            /\ origin' = << >>
            /\ pc' = IF split_documents(L) = 0 THEN "finish" ELSE "loop"
            /\ UNCHANGED error_message
    /\ UNCHANGED <<session_vars, table, writes, last_write_ok, runs,
                   write_failures, unit_vars>>

\* A failed generation call issued again for the same chunk instead of
\* leaving the loop.
ProcessChunk_retrying ==
    /\ pc = "loop"
    /\ \E gen \in GenOutcomes :
        LET output == get_questions(gen)
            n == IF truthy(output) THEN Len(sub_questions(output.text)) ELSE 0
        IN  /\ extracted' = Append(extracted, as_seen(output))
            /\ IF output.kind = "raise"
               THEN /\ Len(extracted) < MaxCalls
                    /\ UNCHANGED <<pc, error_message, counter, questionandanswer,
                                   origin, calls_total>>
               ELSE /\ calls_total + n <= MaxCalls
                    /\ \E responses \in [1..n -> PipelineRetrievals] :
                          questionandanswer' =
                              IF truthy(output)
                              THEN extend(questionandanswer,
                                          get_answer(output.text, responses))
                              ELSE questionandanswer
                    /\ origin' = extend(origin, [j \in 1..n |-> <<counter + 1, j>>])
                    /\ calls_total' = calls_total + n
                    /\ counter' = counter + 1
                    /\ pc' = IF counter + 1 >= max_chunks THEN "finish" ELSE "loop"
                    /\ UNCHANGED error_message
    /\ UNCHANGED <<session_vars, max_chunks, table, writes, last_write_ok,
                   doc_tokens, runs, write_failures, unit_vars>>

\* One iteration of the chunk loop: get_questions, then get_answer when the
\* output is truthy; an exception of get_questions leaves the loop.
ProcessChunk ==
    /\ pc = "loop"
    /\ \E gen \in GenOutcomes :
        LET output == get_questions(gen)
            n == IF truthy(output) THEN Len(sub_questions(output.text)) ELSE 0
        IN  /\ extracted' = Append(extracted, as_seen(output))
            /\ IF output.kind = "raise"
               THEN /\ error_message' = "generation failed"
                    /\ pc' = except_handler
                    /\ UNCHANGED <<counter, questionandanswer, origin, calls_total>>
               ELSE /\ calls_total + n <= MaxCalls
                    /\ \E responses \in [1..n -> PipelineRetrievals] :
                          questionandanswer' =
                              IF truthy(output)
                              THEN extend(questionandanswer,
                                          get_answer(output.text, responses))
                              ELSE questionandanswer
                    /\ origin' = extend(origin, [j \in 1..n |-> <<counter + 1, j>>])
                    /\ calls_total' = calls_total + n
                    /\ counter' = counter + 1
                    /\ pc' = IF counter + 1 >= max_chunks THEN "finish" ELSE "loop"
                    /\ UNCHANGED error_message
    /\ UNCHANGED <<session_vars, max_chunks, table, writes, last_write_ok,
                   doc_tokens, runs, write_failures, unit_vars>>

\* The report handed off only when the COMPLETED write succeeded.
FinishRun_report_after_write ==
    /\ pc = "finish"
    /\ \E ok \in PutOutcomes :
        /\ update_document_status(document_id, file_name, uploaded_file_url,
                                  "COMPLETED",
                                  CompletedMetadata(counter, max_chunks,
                                                    Len(questionandanswer)), ok)
        /\ processed_results' =
              IF ok THEN process_message(questionandanswer) ELSE processed_results
        /\ pc' = after_write(ok, "done")
    /\ UNCHANGED <<uploaded_file_url, document_id, file_name, local_vars,
                   history_vars, runs, calls_total, unit_vars>>

\* After the loop: process_message, then the COMPLETED write.
FinishRun ==
    /\ pc = "finish"
    /\ processed_results' = process_message(questionandanswer)
    /\ \E ok \in PutOutcomes :
        /\ update_document_status(document_id, file_name, uploaded_file_url,
                                  "COMPLETED",
                                  CompletedMetadata(counter, max_chunks,
                                                    Len(questionandanswer)), ok)
        /\ pc' = after_write(ok, "done")
    /\ UNCHANGED <<uploaded_file_url, document_id, file_name, local_vars,
                   history_vars, runs, calls_total, unit_vars>>

\* except Exception: the ERROR write with the exception's text.
HandleError ==
    /\ pc = "except"
    /\ \E ok \in PutOutcomes :
        /\ update_document_status(document_id, file_name, uploaded_file_url,
                                  "ERROR", ErrorMetadata(error_message), ok)
        /\ pc' = after_write(ok, "done")
    /\ UNCHANGED <<session_vars, local_vars, history_vars, runs, calls_total,
                   unit_vars>>

\* run_chunk_document has returned: its locals are gone, the script ends.
AfterRun ==
    /\ pc = "done"
    /\ pc' = "idle"
    /\ max_chunks' = 0
    /\ counter' = 0
    /\ questionandanswer' = << >>
    /\ error_message' = ""
    /\ doc_tokens' = NoTokens
    /\ extracted' = << >>
    /\ origin' = << >>
    /\ last_write_ok' = TRUE
    /\ UNCHANGED <<session_vars, table, writes, count_vars, unit_vars>>

\* display_upload_tab, "Clear Results".
ClearResults ==
    /\ pc = "idle"
    /\ uploaded_file_url # NoUrl
    /\ processed_results' = << >>
    /\ uploaded_file_url' = NoUrl
    /\ document_id' = NoDocument
    /\ file_name' = NoFile
    /\ UNCHANGED <<pc, local_vars, table, writes, last_write_ok, history_vars,
                   count_vars, unit_vars>>

RunStep == StartRun \/ LoadAndSplit \/ ProcessChunk \/ FinishRun \/ HandleError \/ AfterRun

Next ==
    \/ ClickProcess
    \/ StartRun
    \/ LoadAndSplit
    \/ ProcessChunk
    \/ FinishRun
    \/ HandleError
    \/ AfterRun
    \/ ClearResults

Spec == Init /\ [][Next]_vars

\* Once "Process Document" is clicked the script runs to its end: every
\* external call returns or raises.
FairSpec == Spec /\ WF_vars(RunStep)

\* ------------------------------------------- get_answer called on its own
QuestionAlphabet == {NL, "a", "b"}
QuestionTexts == TextsUpTo(QuestionAlphabet, MaxLen)

ResponseAlphabet ==
    {"Sorry, I am unable", "The search results ", "do not contain", "No answer",
     "I could not find", "there is ", "no relevant information to extract",
     " for this question", "ok"}
ResponseTexts == TextsUpTo(ResponseAlphabet, MaxRespLen)

\* Shapes of response['citations'].
CitationShapes ==
    { << >>,
      << << >> >>,
      << <<"s3://kb/doc1">> >>,
      << <<"s3://kb/doc1", "s3://kb/doc2">> >>,
      << << >>, <<"s3://kb/doc2">> >>,
      << <<NoS3Location>> >> }

WideRetrievals ==
    {KbRaise} \cup {KbReturn(t, c) : t \in ResponseTexts, c \in CitationShapes}

\* Every extractor output with a few outcomes per sub-question, and one
\* sub-question with every outcome.
AnswerInit ==
    /\ PipelineIdle
    /\ unit = NoUnit
    /\ answers = << >>
    /\ apc = "ready"
    /\ \/ /\ in_questions \in QuestionTexts
          /\ in_responses \in [1..Len(sub_questions(in_questions)) -> PipelineRetrievals]
       \/ /\ in_questions = ExtractorOutput(1)
          /\ in_responses \in [1..1 -> WideRetrievals]

CallGetAnswer ==
    /\ apc = "ready"
    /\ answers' = get_answer(in_questions, in_responses)
    /\ apc' = "done"
    /\ UNCHANGED <<outside_answer, in_questions, in_responses>>

AnswerNext == CallGetAnswer

AnswerSpec == AnswerInit /\ [][AnswerNext]_vars

\* ------------------------------------------- the document-processor Lambda
\* lambdas/document-processor-lambda/document_processor.py writes the same
\* table (rfi-document-processor) as the Streamlit app.
LambdaFileNames == {"a.pdf"}

\* f"s3://{DOCUMENT_BUCKET}/documents/{document_id}/{file_name}"
lambda_s3_url(d, name) == "documents/" \o ToString(d) \o "/" \o name

\* uuid4: an id no item and no write has used.
FreshIds == {d \in DocIds : writes[d] = << >> /\ \A e \in 1..(d - 1) : writes[e] # << >>}

\* table.put_item(Item=...): the whole item is replaced.
put_item(d, item, ok) ==
    /\ table' = IF ok THEN [table EXCEPT ![d] = item] ELSE table
    /\ writes' = [writes EXCEPT ![d] = Append(@, item.status)]
    /\ write_failures' = IF ok THEN write_failures ELSE write_failures + 1

\* table.update_item(... 'SET #status = :status'): the other attributes stay.
update_item(d, status, ok) ==
    /\ table' = IF ok THEN [table EXCEPT ![d].status = status] ELSE table
    /\ writes' = [writes EXCEPT ![d] = Append(@, status)]
    /\ write_failures' = IF ok THEN write_failures ELSE write_failures + 1

\* What the Streamlit app can have left in the table before the Lambda is
\* invoked: nothing, or the item of a run that ended COMPLETED or in ERROR.
AppLeftovers ==
    { [item |-> NoItem, issued |-> << >>],
      [item |-> [file_name |-> "my rfi.pdf", s3_url |-> s3_location("my rfi.pdf"),
                 status |-> "COMPLETED", metadata |-> CompletedMetadata(1, 1, 1)],
       issued |-> <<"UPLOADED", "PROCESSING", "COMPLETED">>],
      [item |-> [file_name |-> "my rfi.pdf", s3_url |-> s3_location("my rfi.pdf"),
                 status |-> "ERROR", metadata |-> ErrorMetadata("load failed")],
       issued |-> <<"UPLOADED", "PROCESSING", "ERROR">>] }

LambdaInit ==
    /\ SessionIdle
    /\ AnswerIdle
    /\ \E left \in AppLeftovers :
        /\ table = [d \in DocIds |-> IF d = 1 THEN left.item ELSE NoItem]
        /\ writes = [d \in DocIds |-> IF d = 1 THEN left.issued ELSE << >>]
    \* where process_document stands, the document it works on, the
    \* statusCode of the last response, and the number of invocations
    /\ unit = [name |-> "lambda", lambda_pc |-> "ready", lambda_document_id |-> NoDocument,
               lambda_status_code |-> 0, lambda_requests |-> 0]

\* One more invocation, answered with statusCode code.
responded(code) ==
    [unit EXCEPT !.lambda_requests = @ + 1, !.lambda_status_code = code]

\* upload_document: 400 without fileName or fileContent; the S3 put_object
\* or the put_item may raise, which the handler answers with 500; else the
\* item is put with status 'uploaded'.
UploadDocument ==
    /\ unit.lambda_pc = "ready"
    /\ unit.lambda_requests < MaxRequests
    /\ \E name \in LambdaFileNames \cup {NoFile}, has_content \in BOOLEAN,
          stored \in BOOLEAN :
        IF name = NoFile \/ ~has_content
        THEN /\ unit' = responded(400)
             /\ UNCHANGED <<table, writes, write_failures>>
        ELSE IF ~stored
        THEN /\ unit' = responded(500)
             /\ UNCHANGED <<table, writes, write_failures>>
        ELSE \E d \in FreshIds, ok \in PutOutcomes :
                /\ put_item(d, [file_name |-> name, s3_url |-> lambda_s3_url(d, name),
                                status |-> "uploaded", metadata |-> NoMetadata], ok)
                /\ unit' = responded(IF ok THEN 200 ELSE 500)
    /\ UNCHANGED <<session_vars, pc, local_vars, last_write_ok, history_vars, runs,
                   calls_total, answer_vars>>

\* process_document up to its first update_item: 400 without document_id,
\* 404 when get_item finds no item, else the status is set to 'processing'.
ProcessDocument ==
    /\ unit.lambda_pc = "ready"
    /\ unit.lambda_requests < MaxRequests
    /\ \E d \in DocIds \cup {NoDocument} :
        IF d = NoDocument
        THEN /\ unit' = responded(400)
             /\ UNCHANGED <<table, writes, write_failures>>
        ELSE IF table[d] = NoItem
        THEN /\ unit' = responded(404)
             /\ UNCHANGED <<table, writes, write_failures>>
        ELSE \E ok \in PutOutcomes :
                /\ update_item(d, "processing", ok)
                /\ unit' = IF ok
                           THEN [unit EXCEPT !.lambda_requests = @ + 1,
                                             !.lambda_pc = "processing",
                                             !.lambda_document_id = d]
                           ELSE responded(500)
    /\ UNCHANGED <<session_vars, pc, local_vars, last_write_ok, history_vars, runs,
                   calls_total, answer_vars>>

\* process_document, its second update_item: 'completed' and 200, or 500
\* when the update raises.
CompleteDocument ==
    /\ unit.lambda_pc = "processing"
    /\ \E ok \in PutOutcomes :
        /\ update_item(unit.lambda_document_id, "completed", ok)
        /\ unit' = [unit EXCEPT !.lambda_status_code = IF ok THEN 200 ELSE 500,
                                !.lambda_pc = "ready",
                                !.lambda_document_id = NoDocument]
    /\ UNCHANGED <<session_vars, pc, local_vars, last_write_ok, history_vars, runs,
                   calls_total, answer_vars>>

LambdaNext == UploadDocument \/ ProcessDocument \/ CompleteDocument

LambdaSpec == LambdaInit /\ [][LambdaNext]_vars

\* ------------------------------------------------- create_word_document
\* The document is its sequence of block elements: style, text, the run
\* format, and for a question heading the number printed in it.
Element(style, text, format, number) ==
    [style |-> style, text |-> text, format |-> format, number |-> number]
Paragraph(text) == Element("Normal", text, "", 0)
Heading(text, level) ==
    Element(IF level = 0 THEN "Title" ELSE IF level = 1 THEN "Heading 1" ELSE "Heading 2",
            text, "", 0)

Whitespace == {" ", NL}

RECURSIVE lstrip(_)
lstrip(text) ==
    IF text # EmptyText /\ Head(text) \in Whitespace THEN lstrip(Tail(text)) ELSE text

RECURSIVE rstrip(_)
rstrip(text) ==
    IF text # EmptyText /\ text[Len(text)] \in Whitespace
    THEN rstrip(SubSeq(text, 1, Len(text) - 1)) ELSE text

\* Python: text.strip()
strip(text) == rstrip(lstrip(text))

\* The body of the loop for enumerate index i (from 0).
question_section(results, i) ==
    LET result == results[i + 1]
    IN  << Element("Heading 1", <<"Question ", ":">>, "", i + 1),
           Element("Normal", result.question, "bold", 0),
           Heading(<<"Answer:">>, 2),
           IF strip(result.answer) # EmptyText
           THEN Paragraph(result.answer)
           ELSE Element("Normal", <<"No answer found for this question.">>, "italic", 0) >>
        \o (IF strip(result.metadata) # EmptyText
            THEN <<Heading(<<"Source:">>, 2), Paragraph(result.metadata)>>
            ELSE << >>)
        \o (IF i < Len(results) - 1
            THEN <<Paragraph(EmptyText), Paragraph(<<"__________">>), Paragraph(EmptyText)>>
            ELSE << >>)

\* The loop walking the list from its end.
RECURSIVE question_sections_reversed(_, _)
question_sections_reversed(results, i) ==
    IF i >= Len(results) THEN << >>
    ELSE question_sections_reversed(results, i + 1) \o question_section(results, i)

\* for i, result in enumerate(results)
RECURSIVE question_sections(_, _)
question_sections(results, i) ==
    IF i >= Len(results) THEN << >>
    ELSE question_section(results, i) \o question_sections(results, i + 1)

\* The title, the timestamp line, a blank paragraph, then the sections.
create_word_document(results, current_time) ==
    << Heading(<<"Document Analysis Results">>, 0),
       Paragraph(<<"Generated on: ", current_time>>),
       Paragraph(EmptyText) >>
        \o question_sections(results, 0)

\* Records as get_answer produces them.
ExportRecords ==
    { Record(<<"a">>, <<AnswerLabel, "ok">>, <<UrlLabel, "s3://kb/doc1">>),
      Record(<<"a">>, <<AnswerLabel, "ok">>, Blank),
      Record(<<"b">>, Blank, Blank),
      Record(EmptyText, ErrorMarker, Blank) }

RECURSIVE ListsUpTo(_, _)
ListsUpTo(S, n) ==
    IF n = 0 THEN {<< >>}
    ELSE LET shorter == ListsUpTo(S, n - 1)
         IN shorter \cup {Append(l, x) : l \in shorter, x \in S}

\* datetime.now() formatted to the second, at the two exports.
ExportTimes == {"t1", "t2"}

\* The report handed to create_word_document, the document of the first
\* export and that of the second.
ExportInit ==
    /\ PipelineIdle
    /\ AnswerIdle
    /\ unit \in {[name |-> "export", export_results |-> results, export_doc |-> << >>,
                  export_doc_again |-> << >>, export_pc |-> "ready"] :
                    results \in ListsUpTo(ExportRecords, MaxExport)}

\* display_upload_tab builds the document on every rerun that has results.
ExportOnce ==
    /\ unit.export_pc = "ready"
    /\ \E current_time \in ExportTimes :
          unit' = [unit EXCEPT
                      !.export_doc = create_word_document(unit.export_results, current_time),
                      !.export_pc = "once"]
    /\ UNCHANGED outside_unit

ExportAgain ==
    /\ unit.export_pc = "once"
    /\ \E current_time \in ExportTimes :
          unit' = [unit EXCEPT
                      !.export_doc_again =
                          create_word_document(unit.export_results, current_time),
                      !.export_pc = "twice"]
    /\ UNCHANGED outside_unit

ExportNext == ExportOnce \/ ExportAgain

ExportSpec == ExportInit /\ [][ExportNext]_vars

\* ----------------------------------------------- the splitter on its own
Min(a, b) == IF a <= b THEN a ELSE b

\* The loop without its stop at the end of the ids: a window is cut at
\* every start below L.
RECURSIVE token_windows_without_break(_, _, _, _)
token_windows_without_break(L, C, O, start_idx) ==
    IF start_idx >= L THEN << >>
    ELSE << <<start_idx, Min(start_idx + C, L)>> >>
            \o token_windows_without_break(L, C, O, start_idx + (C - O))

\* The windows of input_ids the splitter decodes, each <<start_idx, cur_idx>>
\* for input_ids[start_idx:cur_idx]: the loop appends a window, stops when
\* it reached the end of the ids, else moves on by C - O.
RECURSIVE token_windows_from(_, _, _, _)
token_windows_from(L, C, O, start_idx) ==
    IF start_idx >= L THEN << >>
    ELSE LET cur_idx == Min(start_idx + C, L)
         IN  IF cur_idx = L THEN << <<start_idx, cur_idx>> >>
             ELSE << <<start_idx, cur_idx>> >>
                     \o token_windows_from(L, C, O, start_idx + (C - O))

\* Token counts around the window boundaries of the configured splitter.
ConfiguredTokenCounts ==
    {0, 1, chunk_size - 1, chunk_size, chunk_size + 1, 2 * chunk_size, 2 * chunk_size + 1}

\* The tokens of the text, the chunk size and the overlap handed to the
\* splitter.  TokenTextSplitter requires chunk_overlap <= chunk_size; an
\* overlap equal to the chunk size never advances and is left out.
ChunkerInputs ==
    {i \in [in_tokens : 0..MaxTokens, in_chunk_size : 1..MaxChunkSize,
            in_chunk_overlap : 0..(MaxChunkSize - 1)] :
        i.in_chunk_overlap < i.in_chunk_size}
    \cup {[in_tokens |-> L, in_chunk_size |-> chunk_size,
           in_chunk_overlap |-> chunk_overlap] : L \in ConfiguredTokenCounts}

\* splits: the windows <<start_idx, cur_idx>> the splitter cut.
ChunkerInit ==
    /\ PipelineIdle
    /\ AnswerIdle
    /\ unit \in {[name |-> "chunker", in_tokens |-> i.in_tokens,
                  in_chunk_size |-> i.in_chunk_size,
                  in_chunk_overlap |-> i.in_chunk_overlap,
                  splits |-> << >>, spc |-> "ready"] : i \in ChunkerInputs}

\* text_splitter.split_documents on one text.
SplitText ==
    /\ unit.spc = "ready"
    /\ unit' = [unit EXCEPT
                   !.splits = token_windows_from(unit.in_tokens, unit.in_chunk_size,
                                                 unit.in_chunk_overlap, 0),
                   !.spc = "done"]
    /\ UNCHANGED outside_unit

ChunkerNext == SplitText

ChunkerSpec == ChunkerInit /\ [][ChunkerNext]_vars

\* ------------------------------------------- one chunk of the loop alone
BlockAlphabet == {Unfortunately, "a", " ", NL}
BlockTexts == TextsUpTo(BlockAlphabet, MaxBlockLen)

\* Content blocks after the first.
LaterBlocks == {<<"b">>, <<Unfortunately, "a">>, ExtractorOutput(1)}

WideGenOutcomes ==
    {GenRaise, GenReturn(<< >>)}
        \cup {GenReturn(<<first>> \o later) :
                first \in BlockTexts, later \in ListsUpTo(LaterBlocks, MaxBlocks - 1)}

\* The outcome of the generation call, what get_questions returned, the
\* outcomes of the retrieval calls issued for it, and the records the chunk
\* contributed.
QuestionInit ==
    /\ PipelineIdle
    /\ AnswerIdle
    /\ unit \in {[name |-> "question", in_generation |-> generation, q_output |-> QNone,
                  q_responses |-> << >>, q_result |-> << >>, qpc |-> "ready"] :
                    generation \in WideGenOutcomes}

\* output = get_questions(document_chunk); an exception leaves the loop.
ExtractQuestions ==
    /\ unit.qpc = "ready"
    /\ unit' = [unit EXCEPT
                   !.q_output = get_questions(unit.in_generation),
                   !.qpc = IF get_questions(unit.in_generation).kind = "raise"
                           THEN "raised" ELSE "extracted"]
    /\ UNCHANGED outside_unit

\* if output: result = get_answer(output)
ResolveAnswers ==
    /\ unit.qpc = "extracted"
    /\ IF truthy(unit.q_output)
       THEN \E responses \in
                  [1..Len(sub_questions(unit.q_output.text)) -> PipelineRetrievals] :
                unit' = [unit EXCEPT
                            !.q_responses = responses,
                            !.q_result = get_answer(unit.q_output.text, responses),
                            !.qpc = "resolved"]
       ELSE unit' = [unit EXCEPT !.qpc = "resolved"]
    /\ UNCHANGED outside_unit

QuestionNext == ExtractQuestions \/ ResolveAnswers

QuestionSpec == QuestionInit /\ [][QuestionNext]_vars

\* ------------------------------------------------ login and the History page
\* The users of the Cognito pool and their custom:role attribute.
Users == {"alice", "bob", "root"}
custom_role(u) ==
    CASE u = "root" -> "admin"
      [] u = "bob" -> "user"
      [] OTHER -> NoRole

\* get_user_info: {'success': True, 'username': ..., 'attributes': ...}
UserInfo(u) == [present |-> TRUE, username |-> u, role |-> custom_role(u)]

Pages == {"Upload", "History", "Account"}

\* user_attributes.get('custom:role') == 'admin' if 'custom:role' in
\* user_attributes else False
is_admin(info) == info.role = "admin"

\* The username attribute update_document_status gives an item.
written_username(info) == IF info.present THEN info.username ELSE NoUsername

\* get_document_history: a filtered scan for a user who is not an admin, a
\* full scan for an admin and when user_info is not available; [] when the
\* scan raises.
get_document_history(info, items, scanned) ==
    IF ~scanned THEN {}
    ELSE IF info.present
         THEN IF ~is_admin(info)
              THEN {d \in DocIds : items[d] = info.username}
              ELSE {d \in DocIds : items[d] # NoItemYet}
         ELSE {d \in DocIds : items[d] # NoItemYet}

\* The login state of one browser session (the id and refresh tokens go
\* with the access token), the username attribute of every item of the
\* documents table, and the documents the History page shows; for the
\* record, the users who logged in and out before, and the number of
\* documents the session had processed when the present user logged in.
AuthInit ==
    /\ PipelineIdle
    /\ AnswerIdle
    /\ unit = [name |-> "auth", authenticated |-> FALSE, access_token |-> NoToken,
               user_info |-> NoUserInfo, password_change_required |-> FALSE,
               temp_username |-> NoToken, current_page |-> "Upload",
               item_username |-> [d \in DocIds |-> NoItemYet], history_shown |-> {},
               known_users |-> {}, runs_at_login |-> 0]

\* The user leaving is remembered.
remembered(session) ==
    [session EXCEPT !.known_users = @ \cup {session.access_token}]

\* The five keys every logout deletes.
logged_out(session) ==
    [session EXCEPT !.authenticated = FALSE, !.access_token = NoToken,
                    !.user_info = NoUserInfo]

\* display_login_page, "Login": authenticate_user fails, asks for a new
\* password, or succeeds; on success the flag and the tokens are stored
\* and then get_user_info is called, which may fail.
Login ==
    /\ ~unit.authenticated
    /\ ~unit.password_change_required
    /\ \E u \in Users, outcome \in {"failure", "challenge", "success"},
          looked_up \in BOOLEAN :
        unit' =
            CASE outcome = "failure" -> [unit EXCEPT !.history_shown = {}]
              [] outcome = "challenge" ->
                    [unit EXCEPT !.password_change_required = TRUE,
                                 !.temp_username = u,
                                 !.history_shown = {}]
              [] outcome = "success" ->
                    [unit EXCEPT !.authenticated = TRUE,
                                 !.access_token = u,
                                 !.user_info = IF looked_up THEN UserInfo(u) ELSE @,
                                 !.runs_at_login = runs,
                                 !.history_shown = {}]
    /\ UNCHANGED outside_unit

\* display_login_page, "Set Permanent Password".
SetPermanentPassword ==
    /\ ~unit.authenticated
    /\ unit.password_change_required
    /\ \E changed \in BOOLEAN, looked_up \in BOOLEAN :
        unit' =
            IF changed
            THEN [unit EXCEPT !.authenticated = TRUE,
                              !.access_token = unit.temp_username,
                              !.password_change_required = FALSE,
                              !.temp_username = NoToken,
                              !.user_info = IF looked_up THEN UserInfo(unit.temp_username)
                                            ELSE @,
                              !.runs_at_login = runs,
                              !.history_shown = {}]
            ELSE [unit EXCEPT !.history_shown = {}]
    /\ UNCHANGED outside_unit

\* display_login_page, "Cancel".
CancelPasswordChange ==
    /\ ~unit.authenticated
    /\ unit.password_change_required
    /\ unit' = [unit EXCEPT !.password_change_required = FALSE,
                            !.temp_username = NoToken,
                            !.history_shown = {}]
    /\ UNCHANGED outside_unit

\* main, for an authenticated session whose token verify_token rejects.
TokenExpired ==
    /\ unit.authenticated
    /\ unit' = [logged_out(remembered(unit)) EXCEPT !.history_shown = {}]
    /\ UNCHANGED outside_unit

\* main with a valid token: the selected page is rendered; the History
\* page shows what get_document_history returns.
ShowPage ==
    /\ unit.authenticated
    /\ \E page \in Pages, scanned \in BOOLEAN :
        unit' = [unit EXCEPT
                    !.current_page = page,
                    !.history_shown =
                        IF page = "History"
                        THEN get_document_history(unit.user_info, unit.item_username,
                                                  scanned)
                        ELSE {}]
    /\ UNCHANGED outside_unit

\* display_upload_tab, "Process Document", as far as the table's username
\* attribute goes: every put_item of the run writes the same attribute.
RecordDocument ==
    /\ unit.authenticated
    /\ unit.current_page = "Upload"
    /\ \E d \in DocIds :
        /\ unit.item_username[d] = NoItemYet
        /\ \A e \in 1..(d - 1) : unit.item_username[e] # NoItemYet
        /\ unit' = [unit EXCEPT !.item_username[d] = written_username(unit.user_info),
                                !.history_shown = {}]
    /\ UNCHANGED outside_unit

\* main, the sidebar's "Logout".
SidebarLogout ==
    /\ unit.authenticated
    /\ unit' = [logged_out(remembered(unit)) EXCEPT !.history_shown = {}]
    /\ UNCHANGED outside_unit

\* display_account_tab, "Logout": offered only when user_info is there.
AccountLogout ==
    /\ unit.authenticated
    /\ unit.current_page = "Account"
    /\ unit.user_info.present
    /\ unit' = [logged_out(remembered(unit)) EXCEPT !.current_page = "Upload", !.history_shown = {}]
    /\ UNCHANGED outside_unit

AuthNext ==
    \/ Login
    \/ SetPermanentPassword
    \/ CancelPasswordChange
    \/ TokenExpired
    \/ ShowPage
    \/ RecordDocument
    \/ SidebarLogout
    \/ AccountLogout

AuthSpec == AuthInit /\ [][AuthNext]_vars

\* ------------------------------------- one browser session, login to logout
\* main: the login page is served until the session is authenticated, the
\* Upload tab only to an authenticated session showing that page; a script
\* run ends before the next click is handled.
SessionInit == AuthInit

SessionNext ==
    \/ /\ pc = "idle"
       /\ \/ Login
          \/ SetPermanentPassword
          \/ CancelPasswordChange
          \/ TokenExpired
          \/ ShowPage
          \/ SidebarLogout
          \/ AccountLogout
    \/ /\ unit.authenticated
       /\ unit.current_page = "Upload"
       /\ ClickProcess \/ ClearResults
    \/ RunStep

SessionSpec == SessionInit /\ [][SessionNext]_vars

\* --------------------------------------------- two sessions, one bucket
\* Browser sessions served at the same time, the files offered to the
\* uploader, and the bytes of an upload: <<session, number of the upload>>.
Sessions == {1, 2}
UploadNames == {"my rfi.pdf", "my_rfi.pdf", "b.pdf"}
NoObject == << >>

\* The bucket by object key, and per session: where its script stands, the
\* locator upload_to_s3 returned, the number of its uploads, and the bytes
\* the loader got.
StorageInit ==
    /\ PipelineIdle
    /\ AnswerIdle
    /\ unit = [name |-> "storage",
               bucket |-> [key \in {s3_location(n) : n \in UploadNames} |-> NoObject],
               script |-> [s \in Sessions |-> "idle"],
               docurl |-> [s \in Sessions |-> NoUrl],
               uploads |-> [s \in Sessions |-> 0],
               loaded |-> [s \in Sessions |-> NoObject]]

\* display_upload_tab, "Process Document" up to the call of
\* run_chunk_document: s3.upload_file under the key safe_filename, which
\* replaces an object of that key; a failed upload ends the script.
UploadToS3(s) ==
    /\ unit.script[s] = "idle"
    /\ unit.uploads[s] < MaxUploads
    /\ \E name \in UploadNames, uploaded \in BOOLEAN :
        unit' = IF uploaded
                THEN [unit EXCEPT !.bucket[s3_location(name)] = <<s, unit.uploads[s] + 1>>,
                                  !.docurl[s] = s3_location(name),
                                  !.uploads[s] = @ + 1,
                                  !.loaded[s] = NoObject,
                                  !.script[s] = "uploaded"]
                ELSE [unit EXCEPT !.uploads[s] = @ + 1, !.loaded[s] = NoObject]
    /\ UNCHANGED outside_unit

\* run_chunk_document: AmazonTextractPDFLoader(docurl).load_and_split()
\* reads the object the key holds when it is called, or raises.
LoadDocument(s) ==
    /\ unit.script[s] = "uploaded"
    /\ \E raises \in BOOLEAN :
        unit' = IF raises
                THEN [unit EXCEPT !.script[s] = "idle"]
                ELSE [unit EXCEPT !.loaded[s] = unit.bucket[unit.docurl[s]],
                                  !.script[s] = "loaded"]
    /\ UNCHANGED outside_unit

\* The rest of the run, to its terminal status.
EndRun(s) ==
    /\ unit.script[s] = "loaded"
    /\ unit' = [unit EXCEPT !.script[s] = "idle"]
    /\ UNCHANGED outside_unit

StorageNext == \E s \in Sessions : UploadToS3(s) \/ LoadDocument(s) \/ EndRun(s)

StorageSpec == StorageInit /\ [][StorageNext]_vars

\* ------------------------------------------------------- the chat apps
\* kb_chatbot.py, agent_chatbot.py and streamlit_sample.py: one script run
\* per prompt.  A reference of a citation is rendered (its fields read, its
\* file downloaded or its URL signed) or raises.
ChatApps == {"kb_chatbot", "agent_chatbot", "streamlit_sample"}
Prompts == {"q1", "q2"}

\* Shapes of the citations list: citations with their retrievedReferences.
CitationLists ==
    { << >>,
      << << >> >>,
      << <<"rendered">> >>,
      << <<"raises">> >>,
      << <<"rendered">>, <<"rendered", "raises">> >> }

\* lambda_client.invoke and the reading of its payload: raises (also a
\* payload without the expected keys), or gives the answer, the citations,
\* and for the agent the bytes of the chunks of the return stream.
ChatFailure == [raises |-> TRUE, bytes |-> << >>, citations |-> << >>, stored |-> FALSE]
ChatResults(app) ==
    {ChatFailure}
        \cup {[raises |-> FALSE, bytes |-> b, citations |-> c, stored |-> s] :
                b \in (IF app = "agent_chatbot" THEN {<< >>, <<"answer">>}
                       ELSE {<<"answer">>}),
                c \in CitationLists,
                s \in (IF app = "agent_chatbot" THEN BOOLEAN ELSE {TRUE})}

\* The two nested for loops over citations and references run through.
rendered(citations) ==
    \A i \in 1..Len(citations) :
        \A j \in 1..Len(citations[i]) : citations[i][j] = "rendered"

UserMessage(question) == [role |-> "user", content |-> question]
AssistantMessage(answer) == [role |-> "assistant", content |-> answer]

\* kb_chatbot.py: the user message is appended once the Lambda answered,
\* the assistant message after the citations were rendered.
kb_chatbot_turn(messages, question, result) ==
    IF result.raises THEN messages
    ELSE IF rendered(result.citations)
         THEN Append(Append(messages, UserMessage(question)),
                     AssistantMessage(result.bytes[1]))
         ELSE Append(messages, UserMessage(question))

\* streamlit_sample.py: the same turn, with signed URLs for the downloads.
streamlit_sample_turn(messages, question, result) ==
    IF result.raises THEN messages
    ELSE IF rendered(result.citations)
         THEN Append(Append(messages, UserMessage(question)),
                     AssistantMessage(result.bytes[1]))
         ELSE Append(messages, UserMessage(question))

\* agent_chatbot.py: citations are collected only from chunks with bytes;
\* without citations bytes[0] is rendered; store_citation_information puts
\* an item before the assistant message is appended.
agent_chatbot_turn(messages, question, result) ==
    IF result.raises THEN messages
    ELSE LET citations == IF result.bytes = << >> THEN << >> ELSE result.citations
         IN  IF /\ result.bytes # << >>
                /\ rendered(citations)
                /\ result.stored
             THEN Append(Append(messages, UserMessage(question)),
                         AssistantMessage(result.bytes[1]))
             ELSE Append(messages, UserMessage(question))

chat_turn(app, messages, question, result) ==
    CASE app = "kb_chatbot" -> kb_chatbot_turn(messages, question, result)
      [] app = "agent_chatbot" -> agent_chatbot_turn(messages, question, result)
      [] app = "streamlit_sample" -> streamlit_sample_turn(messages, question, result)

\* st.session_state.messages of one browser session of one of the apps, and
\* the number of prompts it has sent.
ChatInit ==
    /\ PipelineIdle
    /\ AnswerIdle
    /\ unit \in {[name |-> "chat", app |-> app, messages |-> << >>, turns |-> 0] :
                    app \in ChatApps}

\* if prompt := st.chat_input(...): the script run for one prompt.
ChatTurn ==
    /\ unit.turns < MaxTurns
    /\ \E prompt \in Prompts, result \in ChatResults(unit.app) :
        unit' = [unit EXCEPT
                    !.messages = chat_turn(unit.app, unit.messages, prompt, result),
                    !.turns = @ + 1]
    /\ UNCHANGED outside_unit

ChatNext == ChatTurn

ChatSpec == ChatInit /\ [][ChatNext]_vars

\* ----------------------------------------------- the create-index Lambda
\* lambdas/create-index-lambda/index.py.  os.environ.get('COLLECTION_HOST')
\* is None when the variable is not set.
NoHost == "None"
CollectionHosts == {NoHost, "", "https://abc.aoss.amazonaws.com", "abc.aoss.amazonaws.com"}
\* event["RequestType"] of a CloudFormation custom resource request.
RequestTypes == {"Create", "Update", "Delete"}

\* if not collection_host
host_missing(collection_host) == collection_host \in {NoHost, ""}

\* The handler with the index deletion outside its own try: a failed
\* deletion reaches the outer except.
lambda_handler_delete_unguarded(collection_host, RequestType, setup_raises, create_raises, delete_raises) ==
    IF host_missing(collection_host)
    THEN [sent |-> <<"FAILED">>, returned |-> "None"]
    ELSE LET try_block ==
                 IF setup_raises THEN "raised"
                 ELSE CASE RequestType = "Create" ->
                               IF create_raises THEN "raised" ELSE "passed"
                        [] RequestType = "Delete" ->
                               IF delete_raises THEN "raised" ELSE "passed"
                        [] OTHER -> "passed"
             status == IF try_block = "raised" THEN "FAILED" ELSE "SUCCESS"
         IN  [sent |-> <<status>>, returned |-> "statusCode 200"]

\* lambda_handler: the statuses handed to cfnresponse.send, in order, and
\* what the handler returns.  Without a host FAILED is sent and the handler
\* returns.  Else status starts as SUCCESS and the try block runs: the
\* client set-up, then the branch of the request type (a failed deletion
\* is caught by the inner except, any other type does nothing); the outer
\* except sets FAILED, and the finally sends the status once.
lambda_handler(collection_host, RequestType, setup_raises, create_raises, delete_raises) ==
    IF host_missing(collection_host)
    THEN [sent |-> <<"FAILED">>, returned |-> "None"]
    ELSE LET try_block ==
                 IF setup_raises THEN "raised"
                 ELSE CASE RequestType = "Create" ->
                               IF create_raises THEN "raised" ELSE "passed"
                        [] RequestType = "Delete" -> "passed"
                        [] OTHER -> "passed"
             status == IF try_block = "raised" THEN "FAILED" ELSE "SUCCESS"
         IN  [sent |-> <<status>>, returned |-> "statusCode 200"]

\* One invocation: the environment, the event, which of the OpenSearch
\* calls raise, and the responses sent.
IndexInit ==
    /\ PipelineIdle
    /\ AnswerIdle
    /\ unit \in {[name |-> "index", collection_host |-> h, RequestType |-> t,
                  setup_raises |-> s, create_raises |-> c, delete_raises |-> d,
                  sent |-> << >>, returned |-> "None", ipc |-> "invoked"] :
                    h \in CollectionHosts, t \in RequestTypes,
                    s \in BOOLEAN, c \in BOOLEAN, d \in BOOLEAN}

LambdaHandler ==
    /\ unit.ipc = "invoked"
    /\ LET out == lambda_handler(unit.collection_host, unit.RequestType,
                                 unit.setup_raises, unit.create_raises,
                                 unit.delete_raises)
       IN  unit' = [unit EXCEPT !.sent = out.sent, !.returned = out.returned,
                                !.ipc = "done"]
    /\ UNCHANGED outside_unit

IndexNext == LambdaHandler

IndexSpec == IndexInit /\ [][IndexNext]_vars

\* ------------------------------------------------------------------ claims
Completed(d) == Len(writes[d]) = 3 /\ writes[d][3] = "COMPLETED"
Errored(d) == Len(writes[d]) = 3 /\ writes[d][3] = "ERROR"
InRun == pc \in {"loop", "finish", "except", "done"}

\* A prefix of UPLOADED, PROCESSING, then one terminal status.
StatusOrder(w) ==
    /\ Len(w) <= 3
    /\ Len(w) >= 1 => w[1] = "UPLOADED"
    /\ Len(w) >= 2 => w[2] = "PROCESSING"
    /\ Len(w) = 3 => w[3] \in Terminal

\* C1: for every document id the status writes issued are, in order,
\* UPLOADED, PROCESSING and then exactly one of COMPLETED or ERROR, after
\* which nothing more is written for that id; when run_chunk_document has
\* returned all three have been issued, and the stored status is one of
\* those written.
C1_StatusSequence ==
    /\ \A d \in DocIds :
        /\ StatusOrder(writes[d])
        /\ table[d].status # "" =>
              \E k \in 1..Len(writes[d]) : writes[d][k] = table[d].status
    /\ pc = "run" => writes[document_id] = <<"UPLOADED">>
    /\ pc = "done" => Len(writes[document_id]) = 3

C1_Witness ==
    /\ pc = "done"
    /\ writes[document_id] = <<"UPLOADED", "PROCESSING", "ERROR">>
    /\ ~last_write_ok

GenerationFailed == \E i \in 1..Len(extracted) : extracted[i].kind = "raise"

\* C2: when the generation call of one chunk fails, every chunk of the run
\* is still attempted and the report holds the records of the other chunks.
C2_ChunkFailureIsolated ==
    (pc = "done" /\ GenerationFailed) =>
        /\ Len(extracted) = max_chunks
        /\ processed_results = questionandanswer

\* C3 as claimed: a run that has returned left a terminal status in the table.
C3_PersistedTerminal ==
    pc = "done" => table[document_id].status \in Terminal

\* C3, amended: every run that entered the pipeline issues its terminal
\* status write (COMPLETED or ERROR) and returns, and the table holds that
\* terminal status whenever that last put_item succeeded.
C3_TerminalWriteIssued ==
    (pc = "run")
        ~> /\ pc = "done"
           /\ Completed(document_id) \/ Errored(document_id)
           /\ last_write_ok => table[document_id].status = writes[document_id][3]

C3_Witness ==
    /\ pc = "done"
    /\ ~last_write_ok
    /\ Completed(document_id)
    /\ table[document_id].status = "PROCESSING"

\* The segments after the first, counted and cut without sub_questions.
Segments(questions) == split(questions)
SubQuestion(questions, i) == Segments(questions)[i + 1]
NumSubQuestions(questions) == Len(Segments(questions)) - 1

\* C4: a retrieval call that raises gives that sub-question the error
\* marker and a blank citation; the batch still has one record per
\* sub-question, and each record is the one its sub-question and outcome
\* give in a batch of their own.
C4_FailureIsolated ==
    apc = "done" =>
        /\ Len(answers) = NumSubQuestions(in_questions)
        /\ \A i \in 1..Len(answers) :
            /\ in_responses[i].raises =>
                  /\ answers[i].answer = ErrorMarker
                  /\ answers[i].metadata = Blank
            /\ answers[i] =
                  get_answer(Preamble \o <<NL, NL>> \o SubQuestion(in_questions, i),
                             <<in_responses[i]>>)[1]

C4_Witness ==
    /\ apc = "done"
    /\ Len(answers) = 2
    /\ in_responses[1].raises
    /\ in_responses[2] = KbValid
    /\ answers[2].answer = <<AnswerLabel, "ok">>

\* The phrases as the claim lists them.
ClaimedPhrases ==
    { <<"Sorry, I am unable">>, <<"no relevant information to extract">>,
      <<"I could not find">>, <<"No answer">>, <<"do not contain">> }

\* The phrases as the condition of get_answer tests them.
TestedPhrases ==
    { <<"Sorry, I am unable">>, <<"The search results ", "do not contain">>,
      <<"No answer">>, <<"I could not find">>,
      <<"there is ", "no relevant information to extract", " for this question">> }

HasPhrase(text, phrases) == \E ph \in phrases : Contains(text, ph)

\* C5 as claimed: a response text with one of the claimed phrases is
\* recorded with answer "" and citation "".
C5_EmptyOnClaimedPhrase ==
    apc = "done" =>
        \A i \in 1..Len(answers) :
            (~in_responses[i].raises /\ HasPhrase(in_responses[i].text, ClaimedPhrases))
                => (answers[i].answer = EmptyText /\ answers[i].metadata = EmptyText)

\* C5, amended: a response text with one of the five tested phrases is
\* recorded with the sub-question, answer " " and citation " " (blank, not
\* empty), never with the error marker or the "Answer: " label.
C5_BlankOnTestedPhrase ==
    apc = "done" =>
        \A i \in 1..Len(answers) :
            (~in_responses[i].raises /\ HasPhrase(in_responses[i].text, TestedPhrases))
                => answers[i] = Record(SubQuestion(in_questions, i), Blank, Blank)

C5_Witness ==
    /\ apc = "done"
    /\ Len(answers) = 1
    /\ in_responses[1].text = <<"ok", "I could not find">>
    /\ in_responses[1].citations = << <<"s3://kb/doc1">> >>
    /\ answers[1].answer = Blank

AnyReference(citations) == \E c \in 1..Len(citations) : Len(citations[c]) > 0

\* C6: a response text without a negative phrase is recorded as "Answer: "
\* plus the text, with the first reference's locator when the first
\* citation has one and the blank placeholder when no citation has any,
\* whatever the shape of the citations list.
C6_LabelledAnswer ==
    apc = "done" =>
        \A i \in 1..Len(answers) :
            (~in_responses[i].raises
                /\ ~HasPhrase(in_responses[i].text, ClaimedPhrases)) =>
                /\ answers[i].answer = <<AnswerLabel>> \o in_responses[i].text
                /\ ~AnyReference(in_responses[i].citations) =>
                      answers[i].metadata = Blank
                /\ (Len(in_responses[i].citations) > 0
                        /\ Len(in_responses[i].citations[1]) > 0
                        /\ in_responses[i].citations[1][1] # NoS3Location) =>
                      answers[i].metadata = <<UrlLabel, in_responses[i].citations[1][1]>>

\* Strictly increasing in <<chunk, sub-question>>.
Increasing(o) ==
    \A k \in 1..(Len(o) - 1) :
        \/ o[k][1] < o[k + 1][1]
        \/ (o[k][1] = o[k + 1][1] /\ o[k][2] < o[k + 1][2])

IsPrefix(s, t) == Len(s) <= Len(t) /\ SubSeq(t, 1, Len(s)) = s

\* C7: the accumulated records are in chunk order and, within a chunk, in
\* sub-question order, each carrying the sub-question it came from (or no
\* question, when its call raised); the report of a completed run is that
\* list; no step of the loop reorders or removes accumulated records.
C7_ReportOrder ==
    /\ [](InRun =>
            /\ Len(origin) = Len(questionandanswer)
            /\ Increasing(origin)
            /\ \A k \in 1..Len(origin) :
                  questionandanswer[k].question \in
                      {SubQuestion(extracted[origin[k][1]].text, origin[k][2]), EmptyText}
            /\ (pc = "done" /\ Completed(document_id)) =>
                  processed_results = questionandanswer)
    /\ [][pc = "loop" => IsPrefix(questionandanswer, questionandanswer')]_vars

C7_Witness ==
    /\ pc = "done"
    /\ Completed(document_id)
    /\ origin = << <<1, 1>>, <<2, 1>> >>
    /\ processed_results = questionandanswer
    /\ processed_results[1].answer = Blank
    /\ processed_results[2].answer = <<AnswerLabel, "ok">>

NonEmptyExtracted == {i \in 1..Len(extracted) : truthy(extracted[i])}

RECURSIVE SumSubQuestions(_, _)
SumSubQuestions(outs, i) ==
    IF i > Len(outs) THEN 0
    ELSE (IF truthy(outs[i]) THEN NumSubQuestions(outs[i].text) ELSE 0)
            + SumSubQuestions(outs, i + 1)

\* C8 as claimed: at the end of a run the report has at most one record
\* per non-empty extracted question.
C8_AtMostOnePerExtracted ==
    (pc = "done" /\ Completed(document_id)) =>
        Len(processed_results) <= Cardinality(NonEmptyExtracted)

\* C8, amended: the records a run accumulated, and the report of a
\* completed run, number exactly the sub-questions split from the run's
\* non-empty extracted questions: one record per sub-question.
C8_OnePerSubQuestion ==
    /\ InRun => Len(questionandanswer) = SumSubQuestions(extracted, 1)
    /\ (pc = "done" /\ Completed(document_id)) =>
          Len(processed_results) = SumSubQuestions(extracted, 1)

C8_Witness ==
    /\ pc = "done"
    /\ Completed(document_id)
    /\ Len(extracted) = 1
    /\ Len(processed_results) = 2

ValidResponse(r) ==
    ~r.raises /\ ~HasPhrase(r.text, TestedPhrases) /\ AnyReference(r.citations)

\* C9: get_answer returns at most one record per sub-question of its
\* argument, whatever the calls' outcomes; two sub-questions whose calls
\* both return valid text give exactly two labelled records in
\* sub-question order.
C9_RecordsPerSubQuestion ==
    apc = "done" =>
        /\ Len(answers) <= NumSubQuestions(in_questions)
        /\ (NumSubQuestions(in_questions) = 2
                /\ ValidResponse(in_responses[1]) /\ ValidResponse(in_responses[2])) =>
              /\ Len(answers) = 2
              /\ \A i \in 1..2 :
                    /\ answers[i].question = SubQuestion(in_questions, i)
                    /\ answers[i].answer = <<AnswerLabel>> \o in_responses[i].text

C9_Witness ==
    /\ apc = "done"
    /\ in_questions = <<"a", NL, NL, "a", NL, NL, "b">>
    /\ in_responses = <<KbValid, KbValid>>
    /\ Len(answers) = 2
    /\ answers[1].question = <<"a">>
    /\ answers[2].question = <<"b">>

\* C10: a run over a text of no tokens ends in ERROR without reaching the
\* end of the loop, and is never marked COMPLETED.
C10_EmptyDocumentFails ==
    doc_tokens = 0 =>
        /\ pc # "finish"
        /\ pc = "done" => Errored(document_id)

TerminalWrites(d) == {k \in 1..Len(writes[d]) : writes[d][k] \in Terminal}

\* C11: a run is marked COMPLETED only when every chunk went through the
\* loop and nothing was raised; a run in which the load or a generation
\* call raised is marked ERROR, and the ERROR item stored carries the
\* exception's text as its error_message; no document id ever gets more
\* than one terminal write, so none is marked both.
C11_TerminalMark ==
    /\ \A d \in DocIds :
        /\ Cardinality(TerminalWrites(d)) <= 1
        /\ table[d].status = "COMPLETED" => table[d].metadata.error_message = ""
        /\ table[d].status = "ERROR" =>
              table[d].metadata.error_message \in {"load failed", "generation failed"}
    /\ pc = "done" =>
        /\ Completed(document_id) =>
              /\ error_message = ""
              /\ ~GenerationFailed
              /\ counter = max_chunks
              /\ Len(extracted) = max_chunks
        /\ error_message # "" =>
              /\ Errored(document_id)
              /\ last_write_ok =>
                    /\ table[document_id].status = "ERROR"
                    /\ table[document_id].metadata.error_message = error_message

C11_Witness ==
    /\ pc = "done"
    /\ Errored(document_id)
    /\ max_chunks = 2
    /\ counter = 1
    /\ table[document_id].status = "ERROR"
    /\ table[document_id].metadata.error_message = "generation failed"

\* Where the script stands after a status write issued at pc.
AfterWrite(at) ==
    CASE at = "idle" -> "run"
      [] at = "run" -> "load"
      [] OTHER -> "done"

\* C12: a put_item that fails changes nothing but the failure count: the
\* script goes on to the same place as after a successful write, the
\* locals of the run are kept and the hand-off of the report happens all
\* the same; a run in which nothing was raised has processed every chunk
\* and left its records in processed_results, whatever its writes did.
C12_FailedWriteKeepsRun ==
    /\ [][write_failures' > write_failures =>
            /\ table' = table
            /\ pc' = AfterWrite(pc)
            /\ UNCHANGED <<local_vars, history_vars>>
            /\ processed_results' =
                  IF pc = "finish" THEN questionandanswer ELSE processed_results]_vars
    /\ []((pc = "done" /\ error_message = "") =>
            /\ counter = max_chunks
            /\ Len(extracted) = max_chunks
            /\ processed_results = questionandanswer)

C12_Witness ==
    /\ pc = "done"
    /\ runs = 1
    /\ write_failures = 1
    /\ table[document_id].status = "COMPLETED"
    /\ max_chunks = 2
    /\ Len(processed_results) = 2
    /\ processed_results = questionandanswer

\* One retrieval call per sub-question of every non-empty extracted
\* question from chunk c on, in chunk and sub-question order.
RECURSIVE OncePerSubQuestion(_, _)
OncePerSubQuestion(outs, c) ==
    IF c > Len(outs) THEN << >>
    ELSE LET n == IF outs[c].kind = "text" /\ outs[c].text # EmptyText
                  THEN NumSubQuestions(outs[c].text) ELSE 0
         IN [j \in 1..n |-> <<c, j>>] \o OncePerSubQuestion(outs, c + 1)

\* C13: within a run the generation call is issued once for each chunk
\* taken from the list and never for more chunks than the splitter
\* produced, the retrieval calls issued are exactly one per sub-question of
\* the extracted questions, and once a generation call has failed the run
\* issues no further call: a failed call is not issued again.
C13_NoRetry ==
    /\ [](InRun =>
            /\ Len(extracted) <= max_chunks
            /\ Len(extracted) = counter + (IF GenerationFailed THEN 1 ELSE 0)
            /\ \A i \in 1..Len(extracted) :
                  extracted[i].kind = "raise" => i = Len(extracted)
            /\ origin = OncePerSubQuestion(extracted, 1))
    /\ [][GenerationFailed =>
            /\ extracted' \in {extracted, << >>}
            /\ origin' \in {origin, << >>}
            /\ calls_total' = calls_total]_vars

C13_Witness ==
    /\ pc = "done"
    /\ max_chunks = 2
    /\ Len(extracted) = 2
    /\ extracted[2].kind = "raise"
    /\ origin = << <<1, 1>>, <<1, 2>> >>
    /\ questionandanswer[1].answer = ErrorMarker
    /\ questionandanswer[2].answer = <<AnswerLabel, "ok">>

\* C14: every status value written to the documents table, by the
\* Streamlit app or by the document-processor Lambda, is one of UPLOADED,
\* PROCESSING, COMPLETED, ERROR.
C14_StatusEnum ==
    \A d \in DocIds :
        /\ \A k \in 1..Len(writes[d]) : writes[d][k] \in Statuses
        /\ table[d] # NoItem => table[d].status \in Statuses

\* The question headings of a document, and the paragraph under each.
RECURSIVE SectionsFrom(_, _)
SectionsFrom(doc, i) ==
    IF i > Len(doc) THEN << >>
    ELSE IF doc[i].style = "Heading 1"
         THEN <<[number |-> doc[i].number,
                 question |-> IF i < Len(doc) THEN doc[i + 1].text ELSE EmptyText]>>
                 \o SectionsFrom(doc, i + 1)
         ELSE SectionsFrom(doc, i + 1)

Sections(doc) == SectionsFrom(doc, 1)

\* C15: the exported document has one question section per record of the
\* list, numbered 1..n, section k showing the question of record k; a
\* second export of the same list has the same sections in the same
\* order; no export changes the list.
C15_ExportOrder ==
    /\ [](unit.export_pc \in {"once", "twice"} =>
            /\ Len(Sections(unit.export_doc)) = Len(unit.export_results)
            /\ \A k \in 1..Len(unit.export_results) :
                  /\ Sections(unit.export_doc)[k].number = k
                  /\ Sections(unit.export_doc)[k].question = unit.export_results[k].question)
    /\ [](unit.export_pc = "twice" =>
            Sections(unit.export_doc_again) = Sections(unit.export_doc))
    /\ [][unit'.export_results = unit.export_results]_vars

C15_Witness ==
    /\ unit.export_pc = "twice"
    /\ Len(unit.export_results) = 3
    /\ unit.export_results[1].question = <<"b">>
    /\ unit.export_results[2].question = EmptyText
    /\ unit.export_results[3].question = <<"a">>
    /\ unit.export_doc_again # unit.export_doc
    /\ Sections(unit.export_doc_again) = Sections(unit.export_doc)

Ceil(a, b) == (a + b - 1) \div b

\* Every window holds between 1 and C tokens.
WindowSizes(w, C) ==
    \A k \in 1..Len(w) : w[k][2] - w[k][1] >= 1 /\ w[k][2] - w[k][1] <= C

Separator == <<NL, NL>>

\* The segments put back together with the separator between them.
RECURSIVE Joined(_, _)
Joined(segs, i) ==
    IF i > Len(segs) THEN EmptyText
    ELSE IF i = Len(segs) THEN segs[i]
    ELSE segs[i] \o Separator \o Joined(segs, i + 1)

\* segs are the pieces of text between its double newlines, the double
\* newlines taken from the left: joined they give the text back, and no
\* double newline starts inside a piece.
CutAtDoubleNewlines(text, segs) ==
    /\ Len(segs) >= 1
    /\ Joined(segs, 1) = text
    /\ ~Contains(segs[Len(segs)], Separator)
    /\ \A k \in 1..(Len(segs) - 1) : ~Contains(segs[k] \o <<NL>>, Separator)

\* C17: the sub-questions of get_answer are the pieces of its argument
\* between double newlines, the first piece left out; one retrieval call
\* is issued and one record returned for each, carrying that piece as its
\* question unless the call raised; an argument without a double newline
\* gives no call and no record, empty or not.
C17_SegmentsAfterFirst ==
    apc = "done" =>
        LET segs == Segments(in_questions)
        IN  /\ CutAtDoubleNewlines(in_questions, segs)
            /\ Len(in_responses) = Len(segs) - 1
            /\ Len(answers) = Len(segs) - 1
            /\ \A i \in 1..Len(answers) :
                  answers[i].question =
                      IF in_responses[i].raises THEN EmptyText ELSE segs[i + 1]
            /\ ~Contains(in_questions, Separator) =>
                  /\ in_responses = << >>
                  /\ answers = << >>

C17_Witness ==
    /\ apc = "done"
    /\ in_questions = <<"a", NL, "b">>
    /\ in_responses = << >>
    /\ answers = << >>

\* C18: get_questions returns nothing when the response has no content
\* block, else one string decided by the first block alone: that block's
\* text, or the empty string when the text begins with "Unfortunately";
\* whatever the later blocks hold. A chunk whose result is empty or absent
\* issues no retrieval call and contributes no record.
C18_FirstBlockDecides ==
    /\ unit.qpc \in {"extracted", "resolved"} =>
          IF unit.in_generation.content = << >>
          THEN unit.q_output.kind = "none"
          ELSE LET first == unit.in_generation.content[1]
               IN  /\ unit.q_output.kind = "text"
                   /\ unit.q_output.text =
                         IF first # EmptyText /\ first[1] = Unfortunately
                         THEN EmptyText ELSE first
    /\ unit.qpc = "raised" => unit.in_generation.raises /\ unit.q_output.kind = "raise"
    /\ (/\ unit.qpc = "resolved"
        /\ (unit.q_output.kind = "none" \/ unit.q_output.text = EmptyText)) =>
          /\ unit.q_responses = << >>
          /\ unit.q_result = << >>

C18_Witness ==
    /\ unit.qpc = "resolved"
    /\ unit.in_generation.content = << <<Unfortunately, "a">>, ExtractorOutput(1) >>
    /\ unit.q_output = QText(EmptyText)
    /\ unit.q_responses = << >>
    /\ unit.q_result = << >>

\* C19: whenever the table marks a run COMPLETED, the stored metadata has
\* chunks_processed = total_chunks = the number of chunks the splitter cut
\* from the run's text, and answers_found = the number of records in the
\* report; read while the run's script has not yet ended, against the
\* run's own text and report.
C19_CompletedMetadata ==
    /\ \A d \in DocIds :
          table[d].status = "COMPLETED" =>
              /\ table[d].metadata.chunks_processed = table[d].metadata.total_chunks
              /\ table[d].metadata.total_chunks >= 0
              /\ table[d].metadata.answers_found >= 0
              /\ table[d].metadata.error_message = ""
    /\ (pc = "done" /\ table[document_id].status = "COMPLETED") =>
          /\ table[document_id].metadata.total_chunks = Ceil(doc_tokens, chunk_size)
          /\ table[document_id].metadata.chunks_processed = Len(extracted)
          /\ table[document_id].metadata.answers_found = Len(processed_results)

C19_Witness ==
    /\ pc = "done"
    /\ table[document_id].status = "COMPLETED"
    /\ doc_tokens = chunk_size + 1
    /\ table[document_id].metadata =
          [chunks_processed |-> 2, total_chunks |-> 2, answers_found |-> 2,
           error_message |-> ""]
    /\ Len(processed_results) = 2

\* C20: while a user who is not an admin is logged in, the History page
\* shows only items whose username attribute is that user's name.
C20_OwnRecordsOnly ==
    (unit.authenticated /\ custom_role(unit.access_token) # "admin") =>
        \A d \in unit.history_shown : unit.item_username[d] = unit.access_token

\* C21: whenever the session is authenticated, user_info is present and
\* holds a successful user lookup.
C21_UserInfoPresent ==
    unit.authenticated => unit.user_info.present

\* The four pipeline keys of st.session_state as main initialises them.
SessionKeysEmpty ==
    /\ processed_results = << >>
    /\ uploaded_file_url = NoUrl
    /\ document_id = NoDocument
    /\ file_name = NoFile

\* C22: a user who logs in after other users of the same browser session
\* logged out (or expired), and who has not yet processed a document, finds
\* none of their pipeline state: processed_results, uploaded_file_url,
\* document_id and file_name are as a fresh session has them.
C22_NoForeignState ==
    (/\ unit.authenticated
     /\ unit.known_users # {}
     /\ unit.access_token \notin unit.known_users
     /\ runs = unit.runs_at_login) =>
        SessionKeysEmpty

\* display_upload_tab: st.success("Document processed successfully!") is the
\* statement after the call of run_chunk_document, reached when it returns.
success_message_shown == pc = "done"

\* C23: the success message is shown only for a run whose terminal status
\* is COMPLETED, never for one that ended in ERROR.
C23_SuccessOnlyCompleted ==
    success_message_shown =>
        /\ Completed(document_id)
        /\ ~Errored(document_id)

\* C24: when the run of the session's document has ended and its page is
\* rendered, every record of processed_results is one that this run
\* produced; after a run that ended in ERROR the report holds no record of
\* an earlier document's run.
C24_ReportOfCurrentDocument ==
    pc = "done" =>
        \A k \in 1..Len(processed_results) :
            \E j \in 1..Len(questionandanswer) :
                questionandanswer[j] = processed_results[k]

\* C25: every record get_answer returns has as its question the
\* sub-question it was created for, whether the answer is valid, negative
\* or the call raised; no record has an empty question for a sub-question
\* that is not empty.
C25_QuestionKept ==
    apc = "done" =>
        \A i \in 1..Len(answers) :
            /\ i + 1 <= Len(Segments(in_questions))
            /\ answers[i].question = Segments(in_questions)[i + 1]

\* C26: from upload to terminal status, the bytes the loader of a run got
\* from its storage locator are the bytes that run uploaded, whatever the
\* other session uploads and processes in between, same file name or not.
C26_OwnBytes ==
    \A s \in Sessions :
        unit.script[s] = "loaded" => unit.loaded[s] = <<s, unit.uploads[s]>>

\* C27: in the document-processor Lambda a stored status of completed is
\* never followed by processing, however process_document requests for the
\* document are repeated or interleaved.
C27_StatusForward ==
    [][\A d \in DocIds :
          table[d].status = "completed" => table'[d].status # "processing"]_vars

\* C28: between turns the chat history alternates user, assistant, user,
\* assistant, ... and has even length: every user message is followed by
\* exactly one assistant message, also when a turn fails.
C28_Alternation ==
    /\ Len(unit.messages) % 2 = 0
    /\ \A k \in 1..Len(unit.messages) :
          unit.messages[k].role = IF k % 2 = 1 THEN "user" ELSE "assistant"

\* C29: the create-index Lambda sends exactly one CloudFormation response
\* per invocation on every path: FAILED exactly when COLLECTION_HOST is
\* missing or the client set-up or the index creation raises, SUCCESS
\* otherwise, also for a Delete whose index deletion fails; nothing is sent
\* before the handler ran.
C29_OneResponse ==
    /\ unit.ipc = "invoked" => unit.sent = << >>
    /\ unit.ipc = "done" =>
          /\ Len(unit.sent) = 1
          /\ unit.sent[1] = "FAILED" <=>
                \/ unit.collection_host \in {NoHost, ""}
                \/ unit.setup_raises
                \/ unit.RequestType = "Create" /\ unit.create_raises
          /\ unit.sent[1] \in {"FAILED", "SUCCESS"}

C29_Witness ==
    /\ unit.ipc = "done"
    /\ unit.collection_host = "https://abc.aoss.amazonaws.com"
    /\ unit.RequestType = "Delete"
    /\ ~unit.setup_raises
    /\ unit.delete_raises
    /\ unit.sent = <<"SUCCESS">>

====
